---------------------------- MODULE Spec2Model ----------------------------
(***************************************************************************)
(* Recursive concurrent pattern search (src/src/main.c).                   *)
(*                                                                         *)
(* main() calls search_directory() on the root; search_directory() lists a *)
(* directory, recurses synchronously into sub-directories and starts one   *)
(* thread_search() thread per regular file, joining them in batches of     *)
(* MAX_THREADS; thread_search() maps the file and prints every occurrence  *)
(* found by naive_search() under print_mutex.                              *)
(*                                                                         *)
(* Bytes are their ASCII codes.  A path is the sequence of directory       *)
(* entries (node ids) walked from the root, the root itself being <<>>.    *)
(***************************************************************************)
EXTENDS Integers, Sequences, FiniteSets, TLC

(***************************************************************************)
(* Bounds of the model.                                                    *)
(***************************************************************************)
\* main.c:25 has MAX_THREADS 256; the model runs the same code with a small cap.
MAX_THREADS == 2
\* longest file content of the single-file inputs
MaxLen == 3
\* longest pattern of the single-file inputs
MaxPat == 2
\* largest recursion depth given with -r
MaxDepth == 3
\* how many system calls may fail in one run of the tree inputs
MaxFaults == 1

\* size_t arithmetic is modular; the modulus is far above every size of the
\* model (the integers of the checker are narrower than 64 bits).
SIZE_MOD == 2^30

(***************************************************************************)
(* The file system given to the program.                                   *)
(***************************************************************************)
\* the node of the directory main passes to search_directory
ROOT == 1

Dir(ents) == [kind |-> "dir", ents |-> ents, data |-> <<>>, tgt |-> 0]
Reg(data) == [kind |-> "reg", ents |-> <<>>, data |-> data, tgt |-> 0]
Lnk(tgt) == [kind |-> "lnk", ents |-> <<>>, data |-> <<>>, tgt |-> tgt]
Fifo == [kind |-> "fifo", ents |-> <<>>, data |-> <<>>, tgt |-> 0]

Alphabet == {65, 97, 98}

Contents == UNION {[1..n -> Alphabet] : n \in 0..MaxLen}

Patterns == UNION {[1..n -> Alphabet] : n \in 0..MaxPat}

\* a directory holding one regular file
OneFile(c) == <<Dir(<<2>>), Reg(c)>>

\* one directory holding more regular files than the cap, no sub-directory
FlatTree ==
    [n \in 1..(MAX_THREADS + 2) |->
        IF n = ROOT THEN Dir([k \in 1..(MAX_THREADS + 1) |-> k + 1])
        ELSE IF n <= 3 THEN Reg(<<97>>) ELSE Reg(<<>>)]

\* root: file 2, directory 3; 3: files 4 and 5, directory 6; 6: file 7, directory 8; 8: file 9
NestedTree ==
    << Dir(<<2, 3>>), Reg(<<97>>), Dir(<<4, 5, 6>>), Reg(<<>>), Reg(<<97>>),
       Dir(<<7, 8>>), Reg(<<>>), Dir(<<9>>), Reg(<<>>) >>

\* root: a fifo, a link to file 6, a link to directory 7, a dangling link,
\* file 6, directory 7 holding file 8
LinkTree ==
    << Dir(<<2, 3, 4, 5, 6, 7>>), Fifo, Lnk(6), Lnk(7), Lnk(0), Reg(<<97>>),
       Dir(<<8>>), Reg(<<98>>) >>

\* root: a link to the root itself, then file 3
LoopTree == << Dir(<<2, 3>>), Lnk(ROOT), Reg(<<97>>) >>

\* two files scanned side by side: "aa" and "a"
PairTree == << Dir(<<2, 3>>), Reg(<<97, 97>>), Reg(<<97>>) >>

\* the scenarios of the specification: "aa" in "aaaa", "ab" in "ababab"
ExampleWorlds ==
    {[fs |-> OneFile(<<97, 97, 97, 97>>), pattern |-> <<97, 97>>, icase |-> FALSE,
      depth |-> MaxDepth, budget |-> 0],
     [fs |-> OneFile(<<97, 98, 97, 98, 97, 98>>), pattern |-> <<97, 98>>, icase |-> FALSE,
      depth |-> MaxDepth, budget |-> 0]}

\* the neighbours of the letters: '@' and '`', '[' and '{' differ by 32 as 'A' and 'a' do
CaseWorlds ==
    {[fs |-> OneFile(<<64, 96, 91, 123>>), pattern |-> <<b>>, icase |-> TRUE,
      depth |-> MaxDepth, budget |-> 0] : b \in {64, 96, 91, 123}}

ScanWorlds ==
    {[fs |-> OneFile(c), pattern |-> p, icase |-> b, depth |-> MaxDepth, budget |-> 0] :
        c \in Contents, p \in Patterns, b \in BOOLEAN}

\* two tasks that both print
PairWorlds ==
    {[fs |-> PairTree, pattern |-> <<97>>, icase |-> FALSE, depth |-> MaxDepth, budget |-> 0]}

\* the depth limit: no system call fails
DepthWorlds ==
    {[fs |-> t, pattern |-> <<97>>, icase |-> FALSE, depth |-> d, budget |-> 0] :
        t \in {NestedTree, LoopTree}, d \in 1..MaxDepth}

\* failing system calls
FaultWorlds ==
    {[fs |-> t, pattern |-> <<97>>, icase |-> FALSE, depth |-> MaxDepth,
      budget |-> MaxFaults] : t \in {FlatTree, LinkTree}}

TreeWorlds == PairWorlds \cup DepthWorlds \cup FaultWorlds

Worlds == ExampleWorlds \cup CaseWorlds \cup ScanWorlds \cup TreeWorlds

VARIABLES
    fs,          \* the file system: node id -> node
    pattern,     \* main: pattern (bytes)
    icase,       \* main: case_insensetive
    depth0,      \* main: depth
    budget,      \* system calls that may still fail
    mpc,         \* main: "start", "walking", "returned", "done"
    stack,       \* frames of search_directory, innermost last
    nframes,     \* frames created so far
    thr,         \* the threads created so far, by thread id
    print_mutex, \* 0 free, t > 0 held by thread t, -1 destroyed
    stdout_buf,  \* lines printf left in the buffer of stdout
    out,         \* lines flushed to standard output
    stderr,      \* diagnostics of the walker
    faultlog     \* the system calls that failed: [kind, path]

vars ==
    << fs, pattern, icase, depth0, budget, mpc, stack, nframes, thr,
       print_mutex, stdout_buf, out, stderr, faultlog >>

inputs == << fs, pattern, icase, depth0 >>

(***************************************************************************)
(* stat(2), following symbolic links.                                      *)
(***************************************************************************)
RECURSIVE Follow(_, _, _)
Follow(f, n, fuel) ==
    IF n = 0 THEN 0
    ELSE IF f[n].kind # "lnk" THEN n
    ELSE IF fuel = 0 THEN 0
    ELSE Follow(f, f[n].tgt, fuel - 1)

\* the node a path names, 0 when stat fails (dangling link, link loop)
StatNode(f, path) == IF path = <<>> THEN ROOT ELSE Follow(f, path[Len(path)], Len(f))

\* S_ISDIR / S_ISREG of st_mode
StatKind(f, path) == IF StatNode(f, path) = 0 THEN "none" ELSE f[StatNode(f, path)].kind

\* readdir: the two pseudo entries, then the entries of the directory
Listing(f, path) ==
    LET ents == f[StatNode(f, path)].ents
    IN  << [d_name |-> ".", node |-> 0], [d_name |-> "..", node |-> 0] >>
        \o [k \in 1..Len(ents) |-> [d_name |-> ToString(ents[k]), node |-> ents[k]]]

(***************************************************************************)
(* The matcher.                                                            *)
(***************************************************************************)
no_case_change(x) == x

\* tolower as "set bit 5 of every byte of the column 0x40..0x5f"
tolower_bit5(x) == IF x >= 64 /\ x <= 95 THEN x + 32 ELSE x

tolower(x) == IF x >= 65 /\ x <= 90 THEN x + 32 ELSE x

case_func(cb, x) == IF cb THEN tolower(x) ELSE no_case_change(x)

\* the inner loop comparing from the last byte of the pattern down to the first:
\* the index of the mismatch, pat_len when there is none (j counts compared bytes)
RECURSIVE NsInnerFromRight(_, _, _, _, _, _)
NsInnerFromRight(data, i, pat, pat_len, cb, j) ==
    IF j < pat_len
    THEN IF case_func(cb, data[i + pat_len - j]) # case_func(cb, pat[pat_len - j])
         THEN pat_len - 1 - j
         ELSE NsInnerFromRight(data, i, pat, pat_len, cb, j + 1)
    ELSE pat_len

\* the inner loop of naive_search: the value of j when it ends
RECURSIVE NsInner(_, _, _, _, _, _)
NsInner(data, i, pat, pat_len, cb, j) ==
    IF j < pat_len
    THEN IF case_func(cb, data[i + j + 1]) # case_func(cb, pat[j + 1])
         THEN j
         ELSE NsInner(data, i, pat, pat_len, cb, j + 1)
    ELSE j

\* the outer loop of naive_search from alignment i
RECURSIVE NsOuter(_, _, _, _, _, _)
NsOuter(data, data_len, pat, pat_len, cb, i) ==
    IF i <= data_len - pat_len
    THEN IF NsInner(data, i, pat, pat_len, cb, 0) = pat_len
         THEN i
         ELSE NsOuter(data, data_len, pat, pat_len, cb, i + 1)
    ELSE -1

\* naive_search with the last alignment left out (i < data_len - pat_len)
RECURSIVE NsOuterStrict(_, _, _, _, _, _)
NsOuterStrict(data, data_len, pat, pat_len, cb, i) ==
    IF i < data_len - pat_len
    THEN IF NsInner(data, i, pat, pat_len, cb, 0) = pat_len
         THEN i
         ELSE NsOuterStrict(data, data_len, pat, pat_len, cb, i + 1)
    ELSE -1

naive_search_strict(data, data_len, pat, pat_len, cb) ==
    IF pat_len = 0 \/ data_len < pat_len
    THEN -1
    ELSE NsOuterStrict(data, data_len, pat, pat_len, cb, 0)

\* naive_search without its first test (pat_len == 0 || data_len < pat_len)
naive_search_unguarded(data, data_len, pat, pat_len, cb) ==
    NsOuter(data, data_len, pat, pat_len, cb, 0)

naive_search(data, data_len, pat, pat_len, cb) ==
    IF pat_len = 0 \/ data_len < pat_len
    THEN -1
    ELSE NsOuter(data, data_len, pat, pat_len, cb, 0)

\* the alignments the outer loop of naive_search visits from i on, each with the
\* value of j its inner loop ended with
RECURSIVE NsSteps(_, _, _, _, _, _)
NsSteps(data, data_len, pat, pat_len, cb, i) ==
    IF i <= data_len - pat_len
    THEN LET j == NsInner(data, i, pat, pat_len, cb, 0)
         IN  IF j = pat_len
             THEN << [i |-> i, j |-> j] >>
             ELSE << [i |-> i, j |-> j] >> \o NsSteps(data, data_len, pat, pat_len, cb, i + 1)
    ELSE <<>>

naive_search_steps(data, data_len, pat, pat_len, cb) ==
    IF pat_len = 0 \/ data_len < pat_len
    THEN <<>>
    ELSE NsSteps(data, data_len, pat, pat_len, cb, 0)

\* a - b on size_t
USub(a, b) == (a - b) % SIZE_MOD

(***************************************************************************)
(* Initial state: main has parsed its options.                             *)
(***************************************************************************)
InitOf(W) ==
    \E w \in W :
        /\ fs = w.fs
        /\ pattern = w.pattern
        /\ icase = w.icase
        /\ depth0 = w.depth
        /\ budget = w.budget
        /\ mpc = "start"
        /\ stack = <<>>
        /\ nframes = 0
        /\ thr = <<>>
        /\ print_mutex = 0
        /\ stdout_buf = <<>>
        /\ out = <<>>
        /\ stderr = <<>>
        /\ faultlog = {}

Init == InitOf(Worlds)

(***************************************************************************)
(* A system call that fails.                                               *)
(***************************************************************************)
Fault(kind, path) ==
    /\ budget > 0
    /\ budget' = budget - 1
    /\ faultlog' = faultlog \cup {[kind |-> kind, path |-> path]}

NoFault == UNCHANGED << budget, faultlog >>

(***************************************************************************)
(* thread_search (main.c:95-149), one thread per scan task.                *)
(***************************************************************************)
Threads == 1..Len(thr)

pat_len == Len(pattern)

\* the bytes of the file a task names
FileData(path) == fs[StatNode(fs, path)].data

NewThread(path, owner) ==
    [filename |-> path, owner |-> owner, pc |-> "open", fd |-> "none",
     map |-> "none", targ |-> "live", filesize |-> 0, offset |-> 0, pos |-> 0,
     joined |-> FALSE]

ThreadFrame == UNCHANGED << inputs, mpc, stack, nframes, stderr >>

SinkFrame == UNCHANGED << print_mutex, stdout_buf, out >>

\* open(filename, O_RDONLY) succeeds
ThreadOpen(t) ==
    /\ thr[t].pc = "open"
    /\ thr' = [thr EXCEPT ![t].fd = "open", ![t].pc = "fstat"]
    /\ NoFault
    /\ ThreadFrame /\ SinkFrame

\* fd < 0
ThreadOpenFail(t) ==
    /\ thr[t].pc = "open"
    /\ Fault("open", thr[t].filename)
    /\ thr' = [thr EXCEPT ![t].targ = "freed", ![t].pc = "done"]
    /\ ThreadFrame /\ SinkFrame

\* fstat succeeds: a size of zero ends the task
ThreadFstat(t) ==
    /\ thr[t].pc = "fstat"
    /\ LET size == Len(FileData(thr[t].filename))
       IN  IF size = 0
           THEN thr' = [thr EXCEPT ![t].fd = "closed", ![t].targ = "freed",
                                   ![t].pc = "done"]
           ELSE thr' = [thr EXCEPT ![t].filesize = size, ![t].pc = "mmap"]
    /\ NoFault
    /\ ThreadFrame /\ SinkFrame

\* fstat(fd, &st) < 0
ThreadFstatFail(t) ==
    /\ thr[t].pc = "fstat"
    /\ Fault("fstat", thr[t].filename)
    /\ thr' = [thr EXCEPT ![t].fd = "closed", ![t].targ = "freed", ![t].pc = "done"]
    /\ ThreadFrame /\ SinkFrame

\* mmap succeeds; offset = 0
ThreadMmap(t) ==
    /\ thr[t].pc = "mmap"
    /\ thr' = [thr EXCEPT ![t].map = "mapped", ![t].offset = 0, ![t].pc = "search"]
    /\ NoFault
    /\ ThreadFrame /\ SinkFrame

\* ThreadMmapFail without its return: the scan goes on over the failed mapping
ThreadMmapFailGoOn(t) ==
    /\ thr[t].pc = "mmap"
    /\ Fault("mmap", thr[t].filename)
    /\ thr' = [thr EXCEPT ![t].pc = "search"]
    /\ ThreadFrame /\ SinkFrame

\* ThreadMmapFail returning without close(fd)
ThreadMmapFailLeak(t) ==
    /\ thr[t].pc = "mmap"
    /\ Fault("mmap", thr[t].filename)
    /\ thr' = [thr EXCEPT ![t].targ = "freed", ![t].pc = "done"]
    /\ ThreadFrame /\ SinkFrame

\* data == MAP_FAILED
ThreadMmapFail(t) ==
    /\ thr[t].pc = "mmap"
    /\ Fault("mmap", thr[t].filename)
    /\ thr' = [thr EXCEPT ![t].fd = "closed", ![t].targ = "freed", ![t].pc = "done"]
    /\ ThreadFrame /\ SinkFrame

\* the test of the while loop, then naive_search on data + offset
ThreadSearch(t) ==
    /\ thr[t].pc = "search"
    /\ LET self == thr[t]
           data == FileData(self.filename)
           pos  == naive_search(SubSeq(data, self.offset + 1, self.filesize),
                                self.filesize - self.offset, pattern, pat_len, icase)
       IN  IF self.offset <= USub(self.filesize, pat_len)
           THEN thr' = [thr EXCEPT ![t].pos = pos,
                                   ![t].pc = IF pos < 0 THEN "cleanup" ELSE "lock"]
           ELSE thr' = [thr EXCEPT ![t].pc = "cleanup"]
    /\ NoFault
    /\ ThreadFrame /\ SinkFrame

\* ThreadLock without waiting for the mutex
ThreadLockNoWait(t) ==
    /\ thr[t].pc = "lock"
    /\ print_mutex' = t
    /\ thr' = [thr EXCEPT ![t].pc = "printf"]
    /\ NoFault
    /\ ThreadFrame /\ UNCHANGED << stdout_buf, out >>

\* mtx_lock(&print_mutex)
ThreadLock(t) ==
    /\ thr[t].pc = "lock"
    /\ print_mutex = 0
    /\ print_mutex' = t
    /\ thr' = [thr EXCEPT ![t].pc = "printf"]
    /\ NoFault
    /\ ThreadFrame /\ UNCHANGED << stdout_buf, out >>

\* ThreadPrintf printing pos, the offset relative to the last restart
ThreadPrintfRelative(t) ==
    /\ thr[t].pc = "printf"
    /\ stdout_buf' = Append(stdout_buf, [path |-> thr[t].filename, off |-> thr[t].pos])
    /\ thr' = [thr EXCEPT ![t].pc = "fflush"]
    /\ NoFault
    /\ ThreadFrame /\ UNCHANGED << print_mutex, out >>

\* printf("%s:%zu\n", filename, offset + pos)
ThreadPrintf(t) ==
    /\ thr[t].pc = "printf"
    /\ stdout_buf' = Append(stdout_buf,
                            [path |-> thr[t].filename, off |-> thr[t].offset + thr[t].pos])
    /\ thr' = [thr EXCEPT ![t].pc = "fflush"]
    /\ NoFault
    /\ ThreadFrame /\ UNCHANGED << print_mutex, out >>

\* fflush(stdout)
ThreadFflush(t) ==
    /\ thr[t].pc = "fflush"
    /\ out' = out \o stdout_buf
    /\ stdout_buf' = <<>>
    /\ thr' = [thr EXCEPT ![t].pc = "unlock"]
    /\ NoFault
    /\ ThreadFrame /\ UNCHANGED << print_mutex >>

\* ThreadUnlock restarting past the whole match (offset += pos + pat_len)
ThreadUnlockSkip(t) ==
    /\ thr[t].pc = "unlock"
    /\ print_mutex' = 0
    /\ thr' = [thr EXCEPT ![t].offset = thr[t].offset + thr[t].pos + pat_len,
                          ![t].pc = "search"]
    /\ NoFault
    /\ ThreadFrame /\ UNCHANGED << stdout_buf, out >>

\* ThreadUnlock restarting at the match itself (offset += pos)
ThreadUnlockStay(t) ==
    /\ thr[t].pc = "unlock"
    /\ print_mutex' = 0
    /\ thr' = [thr EXCEPT ![t].offset = thr[t].offset + thr[t].pos,
                          ![t].pc = "search"]
    /\ NoFault
    /\ ThreadFrame /\ UNCHANGED << stdout_buf, out >>

\* ThreadUnlock without mtx_unlock
ThreadUnlockKeep(t) ==
    /\ thr[t].pc = "unlock"
    /\ UNCHANGED print_mutex
    /\ thr' = [thr EXCEPT ![t].offset = thr[t].offset + thr[t].pos + 1,
                          ![t].pc = "search"]
    /\ NoFault
    /\ ThreadFrame /\ UNCHANGED << stdout_buf, out >>

\* mtx_unlock(&print_mutex); offset += pos + 1
ThreadUnlock(t) ==
    /\ thr[t].pc = "unlock"
    /\ print_mutex' = 0
    /\ thr' = [thr EXCEPT ![t].offset = thr[t].offset + thr[t].pos + 1,
                          ![t].pc = "search"]
    /\ NoFault
    /\ ThreadFrame /\ UNCHANGED << stdout_buf, out >>

\* munmap, close, free(targ->filename), free(targ)
ThreadCleanup(t) ==
    /\ thr[t].pc = "cleanup"
    /\ thr' = [thr EXCEPT ![t].map = "unmapped", ![t].fd = "closed",
                          ![t].targ = "freed", ![t].pc = "done"]
    /\ NoFault
    /\ ThreadFrame /\ SinkFrame

(***************************************************************************)
(* search_directory (main.c:160-263): the frames of the recursion.         *)
(***************************************************************************)
Top == stack[Len(stack)]

SetTop(f) == [stack EXCEPT ![Len(stack)] = f]

NewFrame(id, dirpath, depth) ==
    [id |-> id, dirpath |-> dirpath, depth |-> depth, pc |-> "enter", idx |-> 1,
     threads |-> [k \in 0..(MAX_THREADS - 1) |-> 0], thread_count |-> 0, i |-> 0]

\* the entry readdir returned last and the path built for it
Entry == Listing(fs, Top.dirpath)[Top.idx]

EntryPath == Append(Top.dirpath, Entry.node)

AtEntry ==
    /\ mpc = "walking"
    /\ Top.pc = "readdir"
    /\ Top.idx <= Len(Listing(fs, Top.dirpath))

IsDot == Entry.d_name = "." \/ Entry.d_name = ".."

\* continue: the next readdir
NextEntry == [Top EXCEPT !.idx = Top.idx + 1]

\* return to the caller: the caller frees path and reads its next entry;
\* the root frame returns to main
Return ==
    IF Len(stack) = 1
    THEN /\ stack' = <<>>
         /\ mpc' = "returned"
    ELSE /\ stack' = [SubSeq(stack, 1, Len(stack) - 1)
                        EXCEPT ![Len(stack) - 1].idx = stack[Len(stack) - 1].idx + 1]
         /\ UNCHANGED mpc

WalkFrame == UNCHANGED << inputs, nframes >>

\* main.c:340: search_directory(dirpath, pattern, depth, pat_len, search_func)
MainCall ==
    /\ mpc = "start"
    /\ mpc' = "walking"
    /\ stack' = << NewFrame(1, <<>>, depth0) >>
    /\ nframes' = 1
    /\ NoFault
    /\ UNCHANGED << inputs, thr, stderr >> /\ SinkFrame

\* if (!(depth--)): the diagnostic, return
SdDepthLimit ==
    /\ mpc = "walking"
    /\ Top.pc = "enter"
    /\ Top.depth = 0
    /\ stderr' = Append(stderr, [msg |-> "Reached max recursion depth", path |-> Top.dirpath])
    /\ Return
    /\ NoFault
    /\ WalkFrame /\ UNCHANGED thr /\ SinkFrame

\* SdOpendir without the decrement of depth
SdOpendirKeepDepth ==
    /\ mpc = "walking"
    /\ Top.pc = "enter"
    /\ Top.depth # 0
    /\ stack' = SetTop([Top EXCEPT !.pc = "readdir", !.idx = 1, !.thread_count = 0])
    /\ NoFault
    /\ WalkFrame /\ UNCHANGED << mpc, thr, stderr >> /\ SinkFrame

\* opendir succeeds; thread_count = 0
SdOpendir ==
    /\ mpc = "walking"
    /\ Top.pc = "enter"
    /\ Top.depth # 0
    /\ stack' = SetTop([Top EXCEPT !.depth = Top.depth - 1, !.pc = "readdir",
                                   !.idx = 1, !.thread_count = 0])
    /\ NoFault
    /\ WalkFrame /\ UNCHANGED << mpc, thr, stderr >> /\ SinkFrame

\* SdOpendirFail without its return: the readdir loop runs after perror
SdOpendirFailGoOn ==
    /\ mpc = "walking"
    /\ Top.pc = "enter"
    /\ Top.depth # 0
    /\ Fault("opendir", Top.dirpath)
    /\ stderr' = Append(stderr, [msg |-> "opendir", path |-> Top.dirpath])
    /\ stack' = SetTop([Top EXCEPT !.depth = Top.depth - 1, !.pc = "readdir",
                                   !.idx = 1, !.thread_count = 0])
    /\ WalkFrame /\ UNCHANGED << mpc, thr >> /\ SinkFrame

\* !dir: perror, return
SdOpendirFail ==
    /\ mpc = "walking"
    /\ Top.pc = "enter"
    /\ Top.depth # 0
    /\ Fault("opendir", Top.dirpath)
    /\ stderr' = Append(stderr, [msg |-> "opendir", path |-> Top.dirpath])
    /\ Return
    /\ WalkFrame /\ UNCHANGED thr /\ SinkFrame

\* "." and "..": continue
SdSkipDot ==
    /\ AtEntry
    /\ IsDot
    /\ stack' = SetTop(NextEntry)
    /\ NoFault
    /\ WalkFrame /\ UNCHANGED << mpc, thr, stderr >> /\ SinkFrame

\* SdEntryFail leaving the directory (return) where the code continues
SdEntryFailReturn(kind) ==
    /\ AtEntry
    /\ ~IsDot
    /\ kind \in {"malloc_targ", "thrd_create"} => StatKind(fs, EntryPath) = "reg"
    /\ kind = "stat" \/ kind = "malloc_targ" \/ kind = "thrd_create"
           => StatKind(fs, EntryPath) # "none"
    /\ Fault(kind, EntryPath)
    /\ stderr' = IF kind = "stat" THEN stderr
                 ELSE Append(stderr, [msg |-> kind, path |-> EntryPath])
    /\ Return
    /\ WalkFrame /\ UNCHANGED thr /\ SinkFrame

\* SdEntryFail with ++thread_count made before the result of thrd_create is tested
SdEntryFailCounted(kind) ==
    /\ AtEntry
    /\ ~IsDot
    /\ kind \in {"malloc_targ", "thrd_create"} => StatKind(fs, EntryPath) = "reg"
    /\ kind = "stat" \/ kind = "malloc_targ" \/ kind = "thrd_create"
           => StatKind(fs, EntryPath) # "none"
    /\ Fault(kind, EntryPath)
    /\ stderr' = IF kind = "stat" THEN stderr
                 ELSE Append(stderr, [msg |-> kind, path |-> EntryPath])
    /\ stack' = SetTop([NextEntry EXCEPT !.thread_count =
                           IF kind = "thrd_create" THEN Top.thread_count + 1
                           ELSE Top.thread_count])
    /\ WalkFrame /\ UNCHANGED << mpc, thr >> /\ SinkFrame

\* malloc of path, sprintf, stat, malloc of targ or thrd_create fails: continue
SdEntryFail(kind) ==
    /\ AtEntry
    /\ ~IsDot
    /\ kind \in {"malloc_targ", "thrd_create"} => StatKind(fs, EntryPath) = "reg"
    /\ kind = "stat" \/ kind = "malloc_targ" \/ kind = "thrd_create"
           => StatKind(fs, EntryPath) # "none"
    /\ Fault(kind, EntryPath)
    /\ stderr' = IF kind = "stat" THEN stderr
                 ELSE Append(stderr, [msg |-> kind, path |-> EntryPath])
    /\ stack' = SetTop(NextEntry)
    /\ WalkFrame /\ UNCHANGED << mpc, thr >> /\ SinkFrame

\* stat(path, &st) < 0 on a name that leads nowhere: free(path), continue
SdStatNone ==
    /\ AtEntry
    /\ ~IsDot
    /\ StatKind(fs, EntryPath) = "none"
    /\ stack' = SetTop(NextEntry)
    /\ NoFault
    /\ WalkFrame /\ UNCHANGED << mpc, thr, stderr >> /\ SinkFrame

\* S_ISDIR: search_directory(path, pattern, depth, pat_len, case_func)
SdRecurse ==
    /\ AtEntry
    /\ ~IsDot
    /\ StatKind(fs, EntryPath) = "dir"
    /\ stack' = Append(stack, NewFrame(nframes + 1, EntryPath, Top.depth))
    /\ nframes' = nframes + 1
    /\ NoFault
    /\ UNCHANGED << inputs, mpc, thr, stderr >> /\ SinkFrame

\* Dispatched without the test of the cap
DispatchedNoCap(f, t) ==
    [f EXCEPT !.threads[f.thread_count] = t,
              !.thread_count = f.thread_count + 1,
              !.idx = f.idx + 1]

\* the batch after ++thread_count: at MAX_THREADS the frame joins all of it
Dispatched(f, t) ==
    LET g == [f EXCEPT !.threads[f.thread_count] = t,
                       !.thread_count = f.thread_count + 1,
                       !.idx = f.idx + 1]
    IN  IF g.thread_count = MAX_THREADS
        THEN [g EXCEPT !.pc = "join_batch", !.i = 0]
        ELSE g

\* SdDispatch for every entry that is not a directory
SdDispatchAny ==
    /\ AtEntry
    /\ ~IsDot
    /\ StatKind(fs, EntryPath) \notin {"none", "dir"}
    /\ thr' = Append(thr, NewThread(EntryPath, Top.id))
    /\ stack' = SetTop(Dispatched(Top, Len(thr) + 1))
    /\ NoFault
    /\ WalkFrame /\ UNCHANGED << mpc, stderr >> /\ SinkFrame

\* S_ISREG: the task record, thrd_create, ++thread_count
SdDispatch ==
    /\ AtEntry
    /\ ~IsDot
    /\ StatKind(fs, EntryPath) = "reg"
    /\ thr' = Append(thr, NewThread(EntryPath, Top.id))
    /\ stack' = SetTop(Dispatched(Top, Len(thr) + 1))
    /\ NoFault
    /\ WalkFrame /\ UNCHANGED << mpc, stderr >> /\ SinkFrame

\* neither a directory nor a regular file: free(path)
SdIgnore ==
    /\ AtEntry
    /\ ~IsDot
    /\ StatKind(fs, EntryPath) \notin {"none", "dir", "reg"}
    /\ stack' = SetTop(NextEntry)
    /\ NoFault
    /\ WalkFrame /\ UNCHANGED << mpc, thr, stderr >> /\ SinkFrame

\* thrd_join(threads[i], NULL) returns once the thread has ended
Joined(t) == [thr EXCEPT ![t].joined = TRUE]

\* the join loop at the cap; thread_count = 0 after its last join
SdJoinBatch ==
    /\ mpc = "walking"
    /\ Top.pc = "join_batch"
    /\ Top.i < Top.thread_count
    /\ thr[Top.threads[Top.i]].pc = "done"
    /\ thr' = Joined(Top.threads[Top.i])
    /\ stack' = SetTop(IF Top.i + 1 < Top.thread_count
                       THEN [Top EXCEPT !.i = Top.i + 1]
                       ELSE [Top EXCEPT !.i = Top.i + 1, !.thread_count = 0,
                                        !.pc = "readdir"])
    /\ NoFault
    /\ WalkFrame /\ UNCHANGED << mpc, stderr >> /\ SinkFrame

\* SdEndOfDir returning without the final join loop
SdEndOfDirNoJoin ==
    /\ mpc = "walking"
    /\ Top.pc = "readdir"
    /\ Top.idx > Len(Listing(fs, Top.dirpath))
    /\ Return
    /\ NoFault
    /\ WalkFrame /\ UNCHANGED << thr, stderr >> /\ SinkFrame

\* readdir returns NULL: closedir; the final join loop, or return when it is empty
SdEndOfDir ==
    /\ mpc = "walking"
    /\ Top.pc = "readdir"
    /\ Top.idx > Len(Listing(fs, Top.dirpath))
    /\ IF Top.thread_count > 0
       THEN /\ stack' = SetTop([Top EXCEPT !.pc = "join_final", !.i = 0])
            /\ UNCHANGED mpc
       ELSE Return
    /\ NoFault
    /\ WalkFrame /\ UNCHANGED << thr, stderr >> /\ SinkFrame

\* SdJoinFinal with a thrd_join that does not wait for the thread to end
SdJoinFinalNoWait ==
    /\ mpc = "walking"
    /\ Top.pc = "join_final"
    /\ Top.i < Top.thread_count
    /\ thr' = Joined(Top.threads[Top.i])
    /\ IF Top.i + 1 < Top.thread_count
       THEN /\ stack' = SetTop([Top EXCEPT !.i = Top.i + 1])
            /\ UNCHANGED mpc
       ELSE Return
    /\ NoFault
    /\ WalkFrame /\ UNCHANGED stderr /\ SinkFrame

\* the final join loop; the frame returns after its last join
SdJoinFinal ==
    /\ mpc = "walking"
    /\ Top.pc = "join_final"
    /\ Top.i < Top.thread_count
    /\ thr[Top.threads[Top.i]].pc = "done"
    /\ thr' = Joined(Top.threads[Top.i])
    /\ IF Top.i + 1 < Top.thread_count
       THEN /\ stack' = SetTop([Top EXCEPT !.i = Top.i + 1])
            /\ UNCHANGED mpc
       ELSE Return
    /\ NoFault
    /\ WalkFrame /\ UNCHANGED stderr /\ SinkFrame

\* main.c:342-345: free, mtx_destroy(&print_mutex), return 0
MainExit ==
    /\ mpc = "returned"
    /\ mpc' = "done"
    /\ print_mutex' = -1
    /\ NoFault
    /\ UNCHANGED << inputs, stack, nframes, thr, stdout_buf, out, stderr >>

EntryFaults == {"malloc_path", "sprintf", "stat", "malloc_targ", "thrd_create"}

Walker ==
    \/ MainCall
    \/ SdDepthLimit
    \/ SdOpendir
    \/ SdOpendirFail
    \/ SdSkipDot
    \/ \E kind \in EntryFaults : SdEntryFail(kind)
    \/ SdStatNone
    \/ SdRecurse
    \/ SdDispatch
    \/ SdIgnore
    \/ SdJoinBatch
    \/ SdEndOfDir
    \/ SdJoinFinal
    \/ MainExit

Scanner ==
    \/ \E t \in Threads : ThreadOpen(t)
    \/ \E t \in Threads : ThreadOpenFail(t)
    \/ \E t \in Threads : ThreadFstat(t)
    \/ \E t \in Threads : ThreadFstatFail(t)
    \/ \E t \in Threads : ThreadMmap(t)
    \/ \E t \in Threads : ThreadMmapFail(t)
    \/ \E t \in Threads : ThreadSearch(t)
    \/ \E t \in Threads : ThreadLock(t)
    \/ \E t \in Threads : ThreadPrintf(t)
    \/ \E t \in Threads : ThreadFflush(t)
    \/ \E t \in Threads : ThreadUnlock(t)
    \/ \E t \in Threads : ThreadCleanup(t)

Next == Walker \/ Scanner

Spec == Init /\ [][Next]_vars

(***************************************************************************)
(* What the run is expected to produce, stated on the file system alone.   *)
(***************************************************************************)
Range(q) == {q[k] : k \in 1..Len(q)}

\* the offsets at which pattern P occurs in T under case folding cb
Occ(T, P, cb) ==
    {i \in 0..(Len(T) - Len(P)) :
        \A j \in 1..Len(P) : case_func(cb, T[i + j]) = case_func(cb, P[j])}

\* the paths of the entries found by descending at most d levels from path p
RECURSIVE Below(_, _, _)
Below(f, p, d) ==
    IF d = 0 THEN {}
    ELSE UNION {{Append(p, e)} \cup
                (IF StatKind(f, Append(p, e)) = "dir" THEN Below(f, Append(p, e), d - 1) ELSE {})
                : e \in Range(f[StatNode(f, p)].ents)}

\* the regular files within the depth limit
RegPaths == {q \in Below(fs, <<>>, depth0) : StatKind(fs, q) = "reg"}

\* the directories one level past the depth limit
DirsPastLimit ==
    {q \in Below(fs, <<>>, depth0) : StatKind(fs, q) = "dir" /\ Len(q) = depth0}

\* the lines of one file in the output, in order
LinesOf(path) == SelectSeq(out, LAMBDA l : l.path = path)

DispatchedPaths == {thr[t].filename : t \in Threads}

WalkOver == mpc \in {"returned", "done"}

(***************************************************************************)
(* C1: once search_directory on the root has returned without any failure, *)
(* the emitted lines are exactly the pairs (f, i) with f a regular file    *)
(* within the depth limit and the pattern (length >= 1) occurring in f at  *)
(* offset i, and no pair is emitted twice.                                 *)
(***************************************************************************)
ExpectedPairs ==
    UNION {{[path |-> q, off |-> i] : i \in Occ(FileData(q), pattern, icase)} : q \in RegPaths}

C1_EndToEnd ==
    (WalkOver /\ faultlog = {} /\ pat_len >= 1) =>
        /\ Range(out) = ExpectedPairs
        /\ Len(out) = Cardinality(ExpectedPairs)
        /\ stdout_buf = <<>>

\* a finished run that printed lines of files of two directories
C1_Witness ==
    /\ mpc = "done"
    /\ faultlog = {}
    /\ \E a, b \in Range(out) : Len(a.path) = 1 /\ Len(b.path) = 2

(***************************************************************************)
(* C2: naive_search returns the smallest offset at which the pattern       *)
(* (length >= 1) occurs in the buffer under the active case folding, and   *)
(* -1 exactly when there is none.                                          *)
(***************************************************************************)
\* the buffer of the last call of thread t: data + offset, filesize - offset
Buffer(t) == SubSeq(FileData(thr[t].filename), thr[t].offset + 1, thr[t].filesize)

C2_FirstMatch ==
    \A t \in Threads :
        pat_len >= 1 =>
            /\ thr[t].pc \in {"lock", "printf", "fflush", "unlock"} =>
                  /\ thr[t].pos \in Occ(Buffer(t), pattern, icase)
                  /\ \A i \in Occ(Buffer(t), pattern, icase) : thr[t].pos <= i
            /\ (thr[t].pc = "cleanup" /\ thr[t].pos = -1) =>
                  Occ(Buffer(t), pattern, icase) = {}

\* a match found past the first alignment, and only by folding case
C2_Witness ==
    \E t \in Threads :
        /\ thr[t].pc = "lock"
        /\ thr[t].pos >= 1
        /\ pat_len = 2
        /\ icase
        /\ Occ(Buffer(t), pattern, FALSE) = {}

(***************************************************************************)
(* C3: for a non-empty file and a pattern of length >= 1, the offsets      *)
(* thread_search emits for the file are exactly the occurrences of the     *)
(* pattern, overlapping ones included, each emitted once.                  *)
(***************************************************************************)
C3_AllOccurrences ==
    \A t \in Threads :
        (thr[t].pc = "done" /\ thr[t].map = "unmapped" /\ pat_len >= 1) =>
            LET lines == LinesOf(thr[t].filename)
                occ   == Occ(FileData(thr[t].filename), pattern, icase)
            IN  /\ {lines[k].off : k \in 1..Len(lines)} = occ
                /\ Len(lines) = Cardinality(occ)

\* "aa" in "aaaa": the overlapping matches 0, 1, 2
C3_Witness ==
    \E t \in Threads :
        /\ thr[t].pc = "done"
        /\ pattern = <<97, 97>>
        /\ FileData(thr[t].filename) = <<97, 97, 97, 97>>
        /\ LinesOf(thr[t].filename) =
              [k \in 1..3 |-> [path |-> thr[t].filename, off |-> k - 1]]

(***************************************************************************)
(* C4: at every moment of a walk the number of scan tasks started and not  *)
(* yet joined is at most MAX_THREADS.                                      *)
(***************************************************************************)
Outstanding == {t \in Threads : ~thr[t].joined}

C4_GlobalCap == Cardinality(Outstanding) <= MAX_THREADS

(***************************************************************************)
(* C5: a frame never has more than MAX_THREADS tasks outstanding; it       *)
(* starts a task only below the cap, and once its batch reaches the cap it *)
(* reads no entry until every task of the batch is joined and the batch is *)
(* reset to empty.                                                         *)
(***************************************************************************)
OutstandingOf(id) == {t \in Outstanding : thr[t].owner = id}

C5_FrameCap ==
    \A k \in 1..Len(stack) :
        LET f == stack[k]
            n == Cardinality(OutstandingOf(f.id))
        IN  /\ n <= MAX_THREADS
            /\ f.pc = "readdir" => n = f.thread_count /\ f.thread_count < MAX_THREADS
            /\ f.pc = "join_batch" =>
                  /\ f.thread_count = MAX_THREADS
                  /\ n = MAX_THREADS - f.i
                  /\ \A t \in Threads : thr[t].owner = f.id =>
                        (thr[t].joined \/ t \in {f.threads[j] : j \in f.i..(MAX_THREADS - 1)})

\* a directory of more files than the cap: a task started after a full batch was joined
C5_Witness ==
    /\ fs = FlatTree
    /\ Len(stack) = 1
    /\ Len(thr) = MAX_THREADS + 1
    /\ \A t \in 1..MAX_THREADS : thr[t].joined
    /\ stack[1].thread_count = 1

(***************************************************************************)
(* C6: at most one scanner is between mtx_lock and mtx_unlock; it holds    *)
(* the mutex for one line, which is written and flushed before the unlock, *)
(* and no scanner holds the mutex while it searches.                       *)
(***************************************************************************)
Inside == {t \in Threads : thr[t].pc \in {"printf", "fflush", "unlock"}}

C6_MutualExclusion ==
    /\ Cardinality(Inside) <= 1
    /\ \A t \in Inside : print_mutex = t
    /\ \A t \in Threads \ Inside : print_mutex # t
    /\ Len(stdout_buf) <= 1
    /\ stdout_buf # <<>> <=> \E t \in Threads : thr[t].pc = "fflush"
    /\ \A t \in Threads : thr[t].pc = "fflush" =>
          stdout_buf = << [path |-> thr[t].filename, off |-> thr[t].offset + thr[t].pos] >>

\* one scanner has written its line and not yet flushed it while another waits for the mutex
C6_Witness ==
    \E t, u \in Threads :
        /\ t # u
        /\ thr[t].pc = "fflush"
        /\ thr[u].pc = "lock"

(***************************************************************************)
(* C7: when a frame of search_directory has returned, every task it        *)
(* started is finished and joined; no scanner is left when the root call   *)
(* has returned and when main destroys the mutex.                          *)
(***************************************************************************)
FrameIds == {stack[k].id : k \in 1..Len(stack)}

C7_DrainBeforeReturn ==
    /\ \A t \in Threads : thr[t].owner \notin FrameIds => thr[t].joined
    /\ \A t \in Threads : thr[t].joined => thr[t].pc = "done"
    /\ WalkOver => \A t \in Threads : thr[t].pc = "done" /\ print_mutex # t
    /\ print_mutex = -1 => \A t \in Threads : thr[t].pc = "done"

\* a sub-directory's frame has returned, its task joined, while the walk goes on
C7_Witness ==
    /\ mpc = "walking"
    /\ \E t \in Threads :
          /\ thr[t].owner \notin FrameIds
          /\ thr[t].joined
          /\ Len(LinesOf(thr[t].filename)) >= 1
    /\ \E u \in Threads : thr[u].pc # "done"

(***************************************************************************)
(* C8: with depth limit D >= 1 (the root at level 1), a directory below    *)
(* level D is never opened; each one search_directory is called on gets    *)
(* one diagnostic; every regular file of a directory within the limit is   *)
(* dispatched; a child frame gets its parent's budget minus one.           *)
(***************************************************************************)
DepthDiags == SelectSeq(stderr, LAMBDA l : l.msg = "Reached max recursion depth")

C8_DepthLimit ==
    /\ \A k \in 1..Len(stack) :
          /\ Len(stack[k].dirpath) = k - 1
          /\ stack[k].pc = "enter" => stack[k].depth = depth0 - (k - 1)
          /\ stack[k].pc # "enter" => stack[k].depth = depth0 - k /\ k <= depth0
    /\ \A k \in 1..Len(DepthDiags) : Len(DepthDiags[k].path) = depth0
    /\ \A t \in Threads : Len(thr[t].filename) <= depth0
    /\ (WalkOver /\ faultlog = {}) =>
          /\ {DepthDiags[k].path : k \in 1..Len(DepthDiags)} = DirsPastLimit
          /\ Len(DepthDiags) = Cardinality(DirsPastLimit)
          /\ DispatchedPaths = RegPaths

\* the limit was hit below a directory whose own files were scanned
C8_Witness ==
    /\ mpc = "done"
    /\ depth0 = 2
    /\ \E k \in 1..Len(DepthDiags) : \E t \in Threads :
          /\ Len(thr[t].filename) = depth0
          /\ SubSeq(thr[t].filename, 1, 1) = SubSeq(DepthDiags[k].path, 1, 1)
    /\ Below(fs, <<>>, depth0 + 1) # Below(fs, <<>>, depth0)

(***************************************************************************)
(* C9 as stated: an entry that is itself a symbolic link is never          *)
(* descended into and never dispatched.                                    *)
(***************************************************************************)
\* the type of the entry itself (lstat)
EntryKind(path) == IF path = <<>> THEN "dir" ELSE fs[path[Len(path)]].kind

C9_SymlinkIgnored ==
    /\ \A t \in Threads : EntryKind(thr[t].filename) # "lnk"
    /\ \A k \in 1..Len(stack) : EntryKind(stack[k].dirpath) # "lnk"

(***************************************************************************)
(* C9 amended: the type is the one stat() reports, which follows symbolic  *)
(* links.  An entry whose stat type is neither directory nor regular file  *)
(* (fifo, device, socket), or whose stat fails (dangling link), is neither *)
(* descended into nor dispatched; a link to a regular file is dispatched   *)
(* and a link to a directory is descended into, like their targets.        *)
(***************************************************************************)
C9_StatTypeDispatch ==
    /\ \A t \in Threads : StatKind(fs, thr[t].filename) = "reg"
    /\ \A k \in 1..Len(stack) : StatKind(fs, stack[k].dirpath) = "dir"
    /\ (WalkOver /\ faultlog = {}) =>
          \A q \in Below(fs, <<>>, depth0) :
              /\ (EntryKind(q) = "lnk" /\ StatKind(fs, q) = "reg") => q \in DispatchedPaths
              /\ (EntryKind(q) = "lnk" /\ StatKind(fs, q) = "dir" /\ Len(q) < depth0) =>
                    \A r \in Below(fs, q, 1) : StatKind(fs, r) = "reg" => r \in DispatchedPaths
              /\ StatKind(fs, q) \notin {"dir", "reg"} =>
                    \A t \in Threads : ~(Len(thr[t].filename) >= Len(q)
                                         /\ SubSeq(thr[t].filename, 1, Len(q)) = q)

\* a finished walk over a fifo, a dangling link, a link to a file and a link to a directory
C9_Witness ==
    /\ mpc = "done"
    /\ faultlog = {}
    /\ \E q \in Below(fs, <<>>, 1) : EntryKind(q) = "fifo"
    /\ \E q \in Below(fs, <<>>, 1) : StatKind(fs, q) = "none"
    /\ \E t \in Threads : EntryKind(thr[t].filename) = "lnk"
    /\ \E t \in Threads : Len(thr[t].filename) = 2
                          /\ EntryKind(SubSeq(thr[t].filename, 1, 1)) = "lnk"

(***************************************************************************)
(* C10: a failure in the walker (opendir of a directory; stat, malloc,     *)
(* sprintf or thrd_create for an entry) skips exactly that directory's     *)
(* subtree or that entry: when the walk is over, the files dispatched are  *)
(* the regular files within the depth limit that lie neither at nor below  *)
(* a path at which a walker call failed.                                   *)
(***************************************************************************)
WalkerFaultPaths ==
    {x.path : x \in {y \in faultlog : y.kind \notin {"open", "fstat", "mmap"}}}

IsPrefix(p, q) == Len(p) <= Len(q) /\ SubSeq(q, 1, Len(p)) = p

C10_ErrorIsolation ==
    WalkOver =>
        DispatchedPaths = {q \in RegPaths : \A p \in WalkerFaultPaths : ~IsPrefix(p, q)}

\* opendir failed on a sub-directory and an entry listed after it was scanned
C10_Witness ==
    /\ mpc = "done"
    /\ \E x \in faultlog :
          /\ x.kind = "opendir"
          /\ Len(x.path) = 1
          /\ \E q \in RegPaths : IsPrefix(x.path, q) /\ q \notin DispatchedPaths
          /\ \E t \in Threads : \E k \in 1..Len(fs[ROOT].ents) : \E j \in 1..Len(fs[ROOT].ents) :
                /\ fs[ROOT].ents[k] = x.path[1]
                /\ fs[ROOT].ents[j] = thr[t].filename[1]
                /\ j > k
                /\ Len(LinesOf(thr[t].filename)) >= 1

(***************************************************************************)
(* C11: a task whose file cannot be opened, whose size cannot be read or   *)
(* is zero, or whose file cannot be mapped ends at once: that step changes *)
(* nothing but the task itself, the mutex is only ever taken by a task     *)
(* that mapped its file, and the output holds no line of an abandoned      *)
(* task.                                                                   *)
(***************************************************************************)
Abandoned(t) == thr[t].pc = "done" /\ thr[t].map = "none"

C11_NoTrace ==
    \A t \in Threads :
        /\ Abandoned(t) => LinesOf(thr[t].filename) = <<>> /\ thr[t].offset = 0
        /\ thr[t].map = "none" => print_mutex # t /\ thr[t].pc \in {"open", "fstat", "mmap", "done"}
        /\ (thr[t].pc = "done" /\ (thr[t].fd = "none" \/ Len(FileData(thr[t].filename)) = 0))
              => Abandoned(t)

C11_AbandonStep ==
    \A t \in Threads :
        (thr[t].pc \in {"open", "fstat", "mmap"} /\ thr'[t].pc = "done") =>
            /\ UNCHANGED << print_mutex, stdout_buf, out, stderr, stack, mpc, nframes >>
            /\ \A u \in Threads \ {t} : thr'[u] = thr[u]
            /\ Len(thr') = Len(thr)

C11_SilentAbandon == []C11_NoTrace /\ [][C11_AbandonStep]_vars

\* the mapping of a file that holds the pattern failed; another task printed its line
C11_Witness ==
    \E t, u \in Threads :
        /\ Abandoned(t)
        /\ [kind |-> "mmap", path |-> thr[t].filename] \in faultlog
        /\ Occ(FileData(thr[t].filename), pattern, icase) # {}
        /\ thr[u].pc = "done"
        /\ LinesOf(thr[u].filename) # <<>>

(***************************************************************************)
(* C12: on every way out of a task the argument block with its path is     *)
(* freed by the step that ends the task and by no other, the descriptor is *)
(* closed if and only if it was opened, the mapping is unmapped if and     *)
(* only if it was made, and nothing is touched after its release; a task   *)
(* record whose thrd_create failed is freed by the walker and never reaches*)
(* a thread; when the walk is over nothing is left.                        *)
(***************************************************************************)
InScan == {"search", "lock", "printf", "fflush", "unlock", "cleanup"}

C12_Held ==
    \A t \in Threads :
        /\ thr[t].targ = "freed" <=> thr[t].pc = "done"
        /\ thr[t].fd = "open" <=> thr[t].pc \in {"fstat", "mmap"} \cup InScan
        /\ thr[t].fd = "none" <=>
              \/ thr[t].pc = "open"
              \/ thr[t].pc = "done"
                   /\ [kind |-> "open", path |-> thr[t].filename] \in faultlog
        /\ thr[t].map = "mapped" <=> thr[t].pc \in InScan
        /\ thr[t].map = "unmapped" => thr[t].pc = "done" /\ thr[t].fd = "closed"
        /\ \A k \in {"malloc_path", "sprintf", "stat", "malloc_targ", "thrd_create"} :
               [kind |-> k, path |-> thr[t].filename] \notin faultlog

C12_NothingLeft ==
    WalkOver => \A t \in Threads :
                    /\ thr[t].targ = "freed"
                    /\ thr[t].fd \in {"none", "closed"}
                    /\ thr[t].map \in {"none", "unmapped"}

\* a released resource never changes again; only thrd_join touches an ended task
C12_Once ==
    \A t \in Threads :
        /\ thr[t].targ = "freed" => thr'[t] = thr[t] \/ thr'[t] = [thr[t] EXCEPT !.joined = TRUE]
        /\ thr[t].fd = "closed" => thr'[t].fd = "closed"
        /\ thr[t].map = "unmapped" => thr'[t].map = "unmapped"
        /\ thr'[t].fd = "closed" /\ thr[t].fd # "closed" => thr[t].fd = "open"
        /\ thr'[t].map = "unmapped" /\ thr[t].map # "unmapped" => thr[t].map = "mapped"
        /\ thr'[t].targ = "freed" /\ thr[t].targ # "freed" => thr[t].targ = "live"

RECURSIVE SerialScan(_, _, _)
SerialScan(path, data, offset) ==
    IF Len(data) = 0 \/ ~(offset <= USub(Len(data), pat_len))
    THEN <<>>
    ELSE LET pos == naive_search(SubSeq(data, offset + 1, Len(data)),
                                 Len(data) - offset, pattern, pat_len, icase)
         IN  IF pos < 0
             THEN <<>>
             ELSE << [path |-> path, off |-> offset + pos] >>
                      \o SerialScan(path, data, offset + pos + 1)

RECURSIVE SerialDir(_, _)
RECURSIVE SerialEntries(_, _, _)
SerialEntries(p, d, k) ==
    IF k > Len(Listing(fs, p))
    THEN <<>>
    ELSE LET e == Listing(fs, p)[k]
             q == Append(p, e.node)
             here == IF e.d_name = "." \/ e.d_name = ".." THEN <<>>
                     ELSE IF StatKind(fs, q) = "dir" THEN SerialDir(q, d)
                     ELSE IF StatKind(fs, q) = "reg" THEN SerialScan(q, FileData(q), 0)
                     ELSE <<>>
         IN  here \o SerialEntries(p, d, k + 1)

SerialDir(p, d) == IF d = 0 THEN <<>> ELSE SerialEntries(p, d - 1, 1)

SerialRun == SerialDir(<<>>, depth0)

(***************************************************************************)
(* C13: for a fixed tree, pattern, case flag and depth limit every         *)
(* complete run without failures prints the same set of (path, offset)     *)
(* pairs, the one the serial schedule prints, each pair as often as there, *)
(* whatever the interleaving of walker and tasks was.                      *)
(***************************************************************************)
C13_ScheduleIndependence ==
    (WalkOver /\ faultlog = {}) =>
        /\ Range(out) = Range(SerialRun)
        /\ Len(out) = Len(SerialRun)

\* a complete run whose lines came out in another order than the serial one
C13_Witness ==
    /\ mpc = "done"
    /\ faultlog = {}
    /\ Len(out) >= 2
    /\ out # SerialRun
    /\ \E k \in 1..Len(out) : out[k].path # out[1].path

(***************************************************************************)
(* C14: an empty file yields no line and is never mapped; a file as long   *)
(* as the pattern yields at most one line, at offset 0; a file shorter     *)
(* than the pattern yields no line, and although filesize - pat_len wraps  *)
(* around on size_t, so that the loop is entered, its first iteration      *)
(* leaves it; the empty pattern yields no line in any file.                *)
(***************************************************************************)
Printing == {"lock", "printf", "fflush", "unlock"}

C14_Cases ==
    \A t \in Threads :
        LET data  == FileData(thr[t].filename)
            lines == LinesOf(thr[t].filename)
        IN  /\ Len(data) = 0 =>
                  lines = <<>> /\ thr[t].pc \in {"open", "fstat", "done"}
            /\ Len(data) = pat_len =>
                  Len(lines) <= 1 /\ \A k \in 1..Len(lines) : lines[k].off = 0
            /\ Len(data) < pat_len =>
                  /\ lines = <<>>
                  /\ thr[t].pc \notin Printing
                  /\ thr[t].offset = 0
                  /\ thr[t].pc = "cleanup" =>
                        thr[t].pos = -1 /\ USub(thr[t].filesize, pat_len) > thr[t].filesize
            /\ pat_len = 0 =>
                  lines = <<>> /\ thr[t].pc \notin Printing /\ thr[t].offset = 0

\* the loop over a file shorter than the pattern, or for the empty pattern, is
\* left by the step that entered it
C14_LoopLeft ==
    \A t \in Threads :
        (thr[t].pc = "search" /\ thr'[t] # thr[t]
           /\ (thr[t].filesize < pat_len \/ pat_len = 0))
            => thr'[t].pc = "cleanup"

C14_Boundaries == []C14_Cases /\ [][C14_LoopLeft]_vars

\* a task over a file of one byte and a pattern of two ended after its mapping
C14_Witness ==
    \E t \in Threads :
        /\ thr[t].pc = "done"
        /\ thr[t].map = "unmapped"
        /\ thr[t].filesize >= 1
        /\ thr[t].filesize < pat_len
        /\ out = <<>>

(***************************************************************************)
(* C15: with the case flag a byte of the file and a byte of the pattern    *)
(* are equal when they are the same byte or the two cases of one letter    *)
(* 'A'..'Z' / 'a'..'z', without it only when they are the same byte; so    *)
(* the offsets printed for a file with the flag are the offsets at which   *)
(* the lower-cased pattern occurs byte for byte in the lower-cased file.   *)
(***************************************************************************)
FoldEq(x, y) ==
    \/ x = y
    \/ x \in 65..90 /\ y = x + 32
    \/ y \in 65..90 /\ x = y + 32

Lowered(s) == [k \in 1..Len(s) |-> IF s[k] \in 65..90 THEN s[k] + 32 ELSE s[k]]

ExactOcc(T, P) == {i \in 0..(Len(T) - Len(P)) : SubSeq(T, i + 1, i + Len(P)) = P}

PrintedOffsets(path) == {LinesOf(path)[k].off : k \in 1..Len(LinesOf(path))}

C15_CaseFolding ==
    \A t \in Threads :
        (thr[t].pc = "done" /\ thr[t].map = "unmapped" /\ pat_len >= 1) =>
            LET data == FileData(thr[t].filename)
                offs == PrintedOffsets(thr[t].filename)
            IN  /\ offs = {i \in 0..(Len(data) - pat_len) :
                              \A j \in 1..pat_len :
                                  IF icase THEN FoldEq(data[i + j], pattern[j])
                                           ELSE data[i + j] = pattern[j]}
                /\ icase => offs = ExactOcc(Lowered(data), Lowered(pattern))
                /\ ~icase => offs = ExactOcc(data, pattern)

\* with the flag a line was printed at an offset where file and pattern differ
\* in case, and no line at another offset of the same file
C15_Witness ==
    \E t \in Threads :
        /\ icase
        /\ thr[t].pc = "done"
        /\ PrintedOffsets(thr[t].filename) # {}
        /\ ExactOcc(FileData(thr[t].filename), pattern) = {}
        /\ PrintedOffsets(thr[t].filename) # 0..(thr[t].filesize - pat_len)

(***************************************************************************)
(* C16: in the output the lines of one file stand in strictly increasing   *)
(* order of their offsets, wherever the lines of other files fall between  *)
(* them.                                                                   *)
(***************************************************************************)
C16_PerFileOrder ==
    \A t \in Threads :
        LET lines == LinesOf(thr[t].filename)
        IN  \A j, k \in 1..Len(lines) : j < k => lines[j].off < lines[k].off

\* a line of another file stands between two lines of one file
C16_Witness ==
    \E i, j, k \in 1..Len(out) :
        /\ i < j /\ j < k
        /\ out[i].path = out[k].path
        /\ out[j].path # out[i].path
        /\ out[i].off < out[k].off

(***************************************************************************)
(* C17: when opendir fails on the root directory, the call of              *)
(* search_directory made by main returns at once: no frame is left, no     *)
(* task was ever created, nothing was printed, and stderr holds the one    *)
(* diagnostic of opendir.                                                  *)
(***************************************************************************)
RootUnreadable == [kind |-> "opendir", path |-> <<>>] \in faultlog

C17_UnreadableRoot ==
    RootUnreadable =>
        /\ WalkOver
        /\ stack = <<>>
        /\ nframes = 1
        /\ thr = <<>>
        /\ out = <<>> /\ stdout_buf = <<>>
        /\ stderr = << [msg |-> "opendir", path |-> <<>>] >>

\* the run ended after the root could not be opened, over a tree with matches in it
C17_Witness ==
    /\ mpc = "done"
    /\ RootUnreadable
    /\ ExpectedPairs # {}

(***************************************************************************)
(* The shift of the Boyer-Moore step, from the tables the specification    *)
(* describes: badChar[c] is m, or m-1-i for the last i in 0..m-2 with      *)
(* fold(pattern[i]) = c; goodSuffix[j] is the least shift that keeps the   *)
(* matched suffix pattern[j+1..m-1] matched and brings another byte under  *)
(* the mismatch.  Pattern indices count from 0 as in the text.             *)
(***************************************************************************)
PatAt(j) == case_func(icase, pattern[j + 1])

BadChar(c) ==
    LET S == {i \in 0..(pat_len - 2) : PatAt(i) = c}
    IN  IF S = {} THEN pat_len
        ELSE pat_len - 1 - (CHOOSE i \in S : \A h \in S : h <= i)

GoodSuffix(j) ==
    LET Fits(s) == /\ \A k \in (j + 1)..(pat_len - 1) : k - s < 0 \/ PatAt(k - s) = PatAt(k)
                   /\ j - s < 0 \/ PatAt(j - s) # PatAt(j)
        S == {s \in 1..pat_len : Fits(s)}
    IN  CHOOSE s \in S : \A h \in S : s <= h

\* the mismatch a right-to-left comparison at alignment i finds first
RightMismatch(buf, i) ==
    LET S == {j \in 0..(pat_len - 1) : case_func(icase, buf[i + j + 1]) # PatAt(j)}
    IN  CHOOSE j \in S : \A h \in S : h <= j

BMShift(buf, i) ==
    LET j  == RightMismatch(buf, i)
        bc == BadChar(case_func(icase, buf[i + j + 1])) - (pat_len - 1 - j)
        gs == GoodSuffix(j)
        sh == IF bc >= gs THEN bc ELSE gs
    IN  IF sh >= 1 THEN sh ELSE 1

\* the tasks whose last call of naive_search ran its loop
Searched ==
    {t \in Threads :
        /\ pat_len >= 1
        /\ thr[t].filesize - thr[t].offset >= pat_len
        /\ \/ thr[t].pc \in {"lock", "printf", "fflush", "unlock"}
           \/ thr[t].pc = "cleanup" /\ thr[t].pos = -1}

StepsOf(t) ==
    naive_search_steps(Buffer(t), thr[t].filesize - thr[t].offset, pattern, pat_len, icase)

(***************************************************************************)
(* C18 as the specification states it: at a mismatch the matcher reports   *)
(* the index a right-to-left comparison finds and moves the alignment on   *)
(* by the Boyer-Moore shift.                                               *)
(***************************************************************************)
C18_BoyerMooreStep ==
    \A t \in Searched :
        LET tr == StepsOf(t)
        IN  \A k \in 1..(Len(tr) - 1) :
                /\ tr[k].j = RightMismatch(Buffer(t), tr[k].i)
                /\ tr[k + 1].i - tr[k].i = BMShift(Buffer(t), tr[k].i)

(***************************************************************************)
(* C18, amended: the matcher compares pattern and buffer left to right at  *)
(* alignment i, stops at the first index j whose bytes differ under the    *)
(* case function, and then moves the alignment on by exactly 1, from 0 up  *)
(* to the first match or to n - m; it returns the alignment of the match,  *)
(* or -1.                                                                  *)
(***************************************************************************)
C18_NaiveStep ==
    \A t \in Searched :
        LET buf == Buffer(t)
            tr  == StepsOf(t)
            n   == Len(tr)
            Differ(i, j) == case_func(icase, buf[i + j + 1]) # PatAt(j)
        IN  /\ n >= 1
            /\ \A k \in 1..n :
                  /\ tr[k].i = k - 1
                  /\ \A h \in 0..(tr[k].j - 1) : ~Differ(tr[k].i, h)
                  /\ tr[k].j < pat_len => Differ(tr[k].i, tr[k].j)
                  /\ k < n => tr[k].j < pat_len
            /\ thr[t].pos >= 0 => tr[n].i = thr[t].pos /\ tr[n].j = pat_len
            /\ thr[t].pos = -1 => tr[n].i = Len(buf) - pat_len /\ tr[n].j < pat_len

\* a search that went past a first byte that matched and on to the next alignment
C18_Witness ==
    \E t \in Searched :
        /\ pat_len = 2
        /\ thr[t].pc = "lock"
        /\ Len(StepsOf(t)) >= 2
        /\ StepsOf(t)[1].j = 1

(***************************************************************************)
(* The program under a fair scheduler: the main thread and the scan        *)
(* threads each keep running while they can take a step.                   *)
(***************************************************************************)
\* the worlds of the fair runs: the scan loop with several matches, two tasks
\* at the mutex, the recursion, batches at the cap, and failing system calls
FairWorlds ==
    ExampleWorlds \cup CaseWorlds \cup PairWorlds \cup DepthWorlds
    \cup {[fs |-> t, pattern |-> <<97>>, icase |-> FALSE, depth |-> MaxDepth, budget |-> 0] :
            t \in {FlatTree, LinkTree}}
    \cup {[fs |-> PairTree, pattern |-> <<97>>, icase |-> FALSE, depth |-> MaxDepth,
           budget |-> MaxFaults]}

FairInit == InitOf(FairWorlds)

FairSpec == FairInit /\ [][Next]_vars /\ WF_vars(Walker) /\ WF_vars(Scanner)

(***************************************************************************)
(* C19: under fair scheduling every run ends: all tasks have ended and     *)
(* were joined, the root call has returned and main has destroyed the      *)
(* mutex; the mutex is held only by a task between its mtx_lock and its    *)
(* mtx_unlock, whose unlock step releases it; each pass through the scan   *)
(* loop raises the offset; and before the end some thread can always take  *)
(* a step.                                                                 *)
(***************************************************************************)
AllOver ==
    /\ mpc = "done"
    /\ stack = <<>>
    /\ \A t \in Threads : thr[t].pc = "done" /\ thr[t].joined

C19_NotStuck == mpc # "done" => ENABLED Next

\* the mutex is held only by a task inside its locked section, which can step
C19_HolderRuns ==
    print_mutex > 0 =>
        /\ print_mutex \in Threads
        /\ thr[print_mutex].pc \in {"printf", "fflush", "unlock"}

C19_LoopAdvances ==
    \A t \in Threads :
        (thr[t].pc = "unlock" /\ thr'[t].pc = "search") =>
            thr'[t].offset > thr[t].offset /\ print_mutex' = 0

C19_Termination ==
    /\ <>[]AllOver
    /\ []C19_NotStuck
    /\ []C19_HolderRuns
    /\ [][C19_LoopAdvances]_vars

\* the walker waits in thrd_join for a task that waits for the mutex another task holds
C19_Witness ==
    /\ mpc = "walking"
    /\ Top.pc \in {"join_batch", "join_final"}
    /\ \E t, u \in Threads :
        /\ t # u
        /\ Top.threads[Top.i] = t
        /\ thr[t].pc = "lock"
        /\ print_mutex = u

(***************************************************************************)
(* The batch of a frame: the slots threads[0..thread_count-1].             *)
(***************************************************************************)
Slots(f) == {f.threads[k] : k \in 0..(f.thread_count - 1)}

InJoinLoop(f) == f.pc \in {"join_batch", "join_final"}

\* range of the counter; the slots hold distinct tasks created by this frame
C20_Slots ==
    \A n \in 1..Len(stack) :
        LET f == stack[n]
        IN  /\ f.thread_count \in 0..MAX_THREADS
            /\ Slots(f) \subseteq Threads
            /\ Cardinality(Slots(f)) = f.thread_count
            /\ \A t \in Slots(f) : thr[t].owner = f.id
            /\ f.pc = "readdir" => f.thread_count < MAX_THREADS

\* thrd_create writes threads[thread_count] inside the array; a failed
\* thrd_create changes neither the counter nor the slots; thrd_join is called
\* on a slot of the batch whose task was created and not joined before
C20_Steps ==
    /\ Len(thr') = Len(thr) + 1 =>
          /\ Top.thread_count < MAX_THREADS
          /\ stack'[Len(stack)].threads[Top.thread_count] = Len(thr')
          /\ stack'[Len(stack)].thread_count = Top.thread_count + 1
          /\ \A k \in 0..(Top.thread_count - 1) :
                 stack'[Len(stack)].threads[k] = Top.threads[k]
    /\ (\E x \in faultlog' \ faultlog : x.kind = "thrd_create") =>
          /\ stack'[Len(stack)].thread_count = Top.thread_count
          /\ stack'[Len(stack)].threads = Top.threads
          /\ thr' = thr
    /\ \A t \in Threads :
          /\ thr[t].joined => thr'[t].joined
          /\ (thr'[t].joined /\ ~thr[t].joined) =>
                /\ InJoinLoop(Top)
                /\ Top.i < Top.thread_count
                /\ t = Top.threads[Top.i]
                /\ \A u \in Threads \ {t} : thr'[u] = thr[u]

(***************************************************************************)
(* C20 as the specification states it: in every frame thread_count is the  *)
(* number of tasks the frame created and has not yet joined, at every      *)
(* moment, besides the range of the counter, the slot written and the      *)
(* joins.                                                                  *)
(***************************************************************************)
C20_CountIsOutstanding ==
    /\ C20_Slots
    /\ \A n \in 1..Len(stack) :
          stack[n].thread_count = Cardinality(OutstandingOf(stack[n].id))

(***************************************************************************)
(* C20, amended: thread_count stays within 0..MAX_THREADS and is below     *)
(* MAX_THREADS when thrd_create writes threads[thread_count]; a failed     *)
(* thrd_create does not change it; every joined handle was created once    *)
(* and is joined once; thread_count is the number of tasks created and not *)
(* yet joined while the frame is outside its join loops, and inside a join *)
(* loop with index i that number is thread_count - i, the tasks of the     *)
(* slots i..thread_count-1.                                                *)
(***************************************************************************)
C20_Count ==
    \A n \in 1..Len(stack) :
        LET f == stack[n]
            open == OutstandingOf(f.id)
        IN  IF InJoinLoop(f)
            THEN /\ f.i < f.thread_count
                 /\ open = {f.threads[k] : k \in f.i..(f.thread_count - 1)}
                 /\ Cardinality(open) = f.thread_count - f.i
            ELSE /\ open = Slots(f)
                 /\ Cardinality(open) = f.thread_count

C20_Bookkeeping == []C20_Slots /\ []C20_Count /\ [][C20_Steps]_vars

\* a frame in its join loop after the first join, one thrd_create having failed before
C20_Witness ==
    /\ mpc = "walking"
    /\ InJoinLoop(Top)
    /\ Top.i >= 1
    /\ Top.thread_count = MAX_THREADS
    /\ \E x \in faultlog : x.kind = "thrd_create"

=============================================================================
